---- MODULE Spec2Model ----
(***************************************************************************)
(* A model of OCVBot's non-skilling behaviours (src/ocvbot/behavior.py):   *)
(* the checkpoint scheduler (logout_break_range / logout_break_roll), the  *)
(* logout() collaborator it calls, and the minimap navigation travel().    *)
(*                                                                         *)
(* Clock values are in milliseconds, checkpoints in whole seconds, break   *)
(* bounds in minutes, as in the source.                                    *)
(***************************************************************************)
EXTENDS Integers, Sequences, FiniteSets, TLC

VARIABLES
    now,                  \* time.time(), in milliseconds
    checkpoint_1,         \* start.checkpoint_1 .. start.checkpoint_5 (seconds)
    checkpoint_2,
    checkpoint_3,
    checkpoint_4,
    checkpoint_5,
    checkpoint_1_checked, \* start.checkpoint_N_checked
    checkpoint_2_checked,
    checkpoint_3_checked,
    checkpoint_4_checked,
    session_num,          \* start.session_num
    session_total,        \* start.session_total
    min_break_duration,   \* config['main']['min_break_duration'] (minutes)
    max_break_duration,   \* config['main']['max_break_duration'] (minutes)
    pc,                   \* "running", "exited" (sys.exit) or "raised"
    exit_code,            \* argument of sys.exit, -1 while none
    tick,                 \* history: what the last logout_break_range() did
    cycle,                \* history: rolls since the flags were last reset
    travel_pc,            \* travel(): "idle", "loop" or "returned"
    client,               \* vision.client: (left, top) of the game client
    param_list,           \* travel's arguments
    attempts,
    wp,                   \* index in param_list of the current waypoint
    attempt,              \* the inner loop's variable
    travel_result,        \* travel's return value, "none" before it returns
    observed,             \* history: waypoints seen within tolerance
    clicks,               \* history: clicks dispatched, per waypoint
    iter,                 \* history: what the last loop iteration did
    click,                \* history: one click computation of travel()
    screen,               \* what the client shows: "logged_in", "logged_out"
    start_time,           \* start.start_time (ms)
    call                  \* history: the last call of a behavior function

schedVars == <<now, checkpoint_1, checkpoint_2, checkpoint_3, checkpoint_4,
               checkpoint_5, checkpoint_1_checked, checkpoint_2_checked,
               checkpoint_3_checked, checkpoint_4_checked, session_num,
               session_total, min_break_duration, max_break_duration, pc,
               exit_code, tick, cycle>>

travelVars == <<travel_pc, client, param_list, attempts, wp, attempt,
                travel_result, observed, clicks, iter>>

callVars == <<click, screen, start_time, call>>

vars == <<schedVars, travelVars, callVars>>

----------------------------------------------------------------------------
(* Bounds of the model.                                                    *)

MaxFirstCheckpoint == 1   \* the first checkpoint is at 1..MaxFirstCheckpoint s
MaxCheckpointGap == 1     \* spacing of the checkpoints, 1..MaxCheckpointGap s
MaxSessions == 2          \* session_total is in 1..MaxSessions
MaxBreakMinutes == 2      \* break bounds are in 1..MaxBreakMinutes minutes
ClockStep == 500          \* the clock advances in steps of ClockStep ms
ExtraClock == 1000        \* the clock runs ExtraClock ms past checkpoint 5
MaxCallClock == 1000      \* single functions are called up to this time (ms)
MaxSide == 2              \* needles and regions are up to MaxSide pixels wide
MaxLocateAttempts == 2    \* locate() is given 1..MaxLocateAttempts attempts
MaxPollInterval == 2      \* a sleep of locate() takes 1..MaxPollInterval ms
MaxDepth == 3             \* calls nested deeper stand for the recursion limit

----------------------------------------------------------------------------
(* Helpers standing for library calls.                                     *)

Rep(e, n) == [i \in 1..n |-> e]

\* How many times e occurs in seq.
Count(seq, e) == Cardinality({i \in DOMAIN seq : seq[i] = e})

\* Python's round() of a time given in ms, to whole seconds: half to even.
round(ms) ==
    LET q == ms \div 1000
        r == ms % 1000
    IN  IF r < 500 THEN q
        ELSE IF r > 500 THEN q + 1
        ELSE IF q % 2 = 0 THEN q ELSE q + 1

\* rand.randint(a, b): any integer of a..b.
randint(a, b) == a..b

\* misc.rand_seconds(lo, hi): a random number of seconds between lo and hi
\* milliseconds.  The result is kept in milliseconds (thousandths of a
\* second); the samples are the two ends and the middle of the range.
rand_seconds(lo, hi) == {d \in {lo, (lo + hi) \div 2, hi} : lo <= d /\ d <= hi}

----------------------------------------------------------------------------
(* logout() and the side stone it opens.  What the screen shows is the     *)
(* environment's choice, given as a record env:                            *)
(*   already : vis.orient() reports 'logged_out'                           *)
(*   stone   : 0 the logout side stone is already open, k in 1..4 it is    *)
(*             seen open after the k-th click round, 5 never               *)
(* The outcome is a record: raised (an exception left the call), result   *)
(* (the value returned, "none" when raised) and events, in order.         *)
(*   button  : 0 no logout button is ever found, k in 1..12 the k-th       *)
(*             search (4 rounds of 3 needles) is the first to find one     *)
(*   detect  : k in 0..4 the logged-out screen is detected at try k,       *)
(*             5 never                                                     *)
(* Events: "vision" a wait_for_needle()/orient() query, "click_needle" a   *)
(* Vision.click_needle() call, "click" an input.Mouse click.               *)

\* One failed round of open_side_stone's loop, then one successful round.
StoneRoundFail == <<"click_needle", "vision", "click_needle">>
StoneRoundOk == <<"click_needle", "vision">>

RECURSIVE Flat(_)
Flat(ss) == IF ss = <<>> THEN <<>> ELSE Head(ss) \o Flat(Tail(ss))

\* The rounds of open_side_stone's loop: range(1, 5).
StoneRounds == 4

\* Mutant: the closed stone is clicked even when it was seen open.
open_side_stone_alwaysClicks(stone) ==
    IF stone \in 0..StoneRounds
    THEN [raised |-> FALSE, result |-> TRUE,
          events |-> <<"vision">> \o Flat(Rep(StoneRoundFail, stone - 1))
                        \o StoneRoundOk]
    ELSE [raised |-> TRUE, result |-> "none",
          events |-> <<"vision">> \o Flat(Rep(StoneRoundFail, StoneRounds))]

open_side_stone(stone) ==
    IF stone = 0
    THEN [raised |-> FALSE, result |-> TRUE, events |-> <<"vision">>]
    ELSE IF stone \in 1..StoneRounds
    THEN [raised |-> FALSE, result |-> TRUE,
          events |-> <<"vision">> \o Flat(Rep(StoneRoundFail, stone - 1))
                        \o StoneRoundOk]
    ELSE [raised |-> TRUE, result |-> "none",
          events |-> <<"vision">> \o Flat(Rep(StoneRoundFail, StoneRounds))]

\* Mutant: the client's orientation is not looked at first.
logout_noOrient(env) ==
    LET stone == open_side_stone(env.stone)
        pre == <<"vision">> \o stone.events
    IN  IF stone.raised
        THEN [raised |-> TRUE, result |-> "none", events |-> pre]
        ELSE IF env.button = 0
        THEN [raised |-> TRUE, result |-> "none",
              events |-> pre \o Rep("vision", 12)]
        ELSE
        LET found == pre \o Rep("vision", env.button) \o <<"click">>
        IN  IF env.detect \in 0..4
            THEN [raised |-> FALSE, result |-> TRUE,
                  events |-> found
                      \o Flat(Rep(<<"vision", "click">>, env.detect))
                      \o <<"vision">>]
            ELSE [raised |-> TRUE, result |-> "none",
                  events |-> found \o Flat(Rep(<<"vision", "click">>, 5))]

\* Mutant: False is returned when the logged-out screen never shows.
logout_falseOnTimeout(env) ==
    IF env.already
    THEN [raised |-> FALSE, result |-> TRUE, events |-> <<"vision">>]
    ELSE
    LET stone == open_side_stone(env.stone)
        pre == <<"vision">> \o stone.events
    IN  IF stone.raised
        THEN [raised |-> TRUE, result |-> "none", events |-> pre]
        ELSE IF env.button = 0
        THEN [raised |-> TRUE, result |-> "none",
              events |-> pre \o Rep("vision", 12)]
        ELSE
        LET found == pre \o Rep("vision", env.button) \o <<"click">>
        IN  IF env.detect \in 0..4
            THEN [raised |-> FALSE, result |-> TRUE,
                  events |-> found
                      \o Flat(Rep(<<"vision", "click">>, env.detect))
                      \o <<"vision">>]
            ELSE [raised |-> FALSE, result |-> FALSE,
                  events |-> found \o Flat(Rep(<<"vision", "click">>, 5))]

logout(env) ==
    IF env.already
    THEN [raised |-> FALSE, result |-> TRUE, events |-> <<"vision">>]
    ELSE
    LET stone == open_side_stone(env.stone)
        pre == <<"vision">> \o stone.events
    IN  IF stone.raised
        THEN [raised |-> TRUE, result |-> "none", events |-> pre]
        ELSE IF env.button = 0
        THEN [raised |-> TRUE, result |-> "none",
              events |-> pre \o Rep("vision", 12)]
        ELSE
        LET found == pre \o Rep("vision", env.button) \o <<"click">>
        IN  IF env.detect \in 0..4
            THEN [raised |-> FALSE, result |-> TRUE,
                  events |-> found
                      \o Flat(Rep(<<"vision", "click">>, env.detect))
                      \o <<"vision">>]
            ELSE [raised |-> TRUE, result |-> "none",
                  events |-> found \o Flat(Rep(<<"vision", "click">>, 5))]

\* The screens the scheduler's logout() calls are checked against: already
\* logged out; a logout at the first click; and each of logout's three
\* failures.
LogoutEnvs ==
    {[already |-> TRUE, stone |-> 0, button |-> 1, detect |-> 0],
     [already |-> FALSE, stone |-> 0, button |-> 1, detect |-> 0],
     [already |-> FALSE, stone |-> 5, button |-> 1, detect |-> 0],
     [already |-> FALSE, stone |-> 0, button |-> 0, detect |-> 0],
     [already |-> FALSE, stone |-> 0, button |-> 1, detect |-> 5]}

----------------------------------------------------------------------------
(* logout_break_roll(chance): every outcome of one call, for session       *)
(* counters sn/st and break bounds minb/maxb (minutes).                    *)
(*   roll       the value of rand.randint(1, chance)                       *)
(*   events     what the call did, in order                                *)
(*   session_num, pc, exit_code   the values the call leaves               *)
(*   slept      the argument of time.sleep, in ms (0: no sleep)            *)
(* Events: "roll", "logout" (the call, followed by logout's own events),   *)
(* "logout_returned" or "logout_raised", "session_num" (the increment),    *)
(* "exit" (sys.exit) and "sleep" (time.sleep).                             *)

\* Mutant: minutes taken for seconds in the conversion.
BreakRange_seconds(minb, maxb) == [lo |-> minb * 1000, hi |-> maxb * 1000]

\* The break bounds converted from minutes to milliseconds.
BreakRange(minb, maxb) == [lo |-> minb * 60000, hi |-> maxb * 60000]

\* Mutant: the budget test off by one session.
BudgetExhausted_strict(sn, st) == sn > st

\* The budget test: the maximum number of sessions has been reached.
BudgetExhausted(sn, st) == sn >= st

\* Mutant: the break sleep is taken before the budget test.
AfterLogout_sleepFirst(sn, st, d) ==
    IF BudgetExhausted(sn + 1, st)
    THEN [events |-> <<"logout_returned", "session_num", "sleep", "exit">>,
          session_num |-> sn + 1, pc |-> "exited", exit_code |-> 0,
          slept |-> d]
    ELSE [events |-> <<"logout_returned", "session_num", "sleep">>,
          session_num |-> sn + 1, pc |-> "running", exit_code |-> -1,
          slept |-> d]

\* What follows a logout() that returned: count the session, then either
\* exit or sleep for d ms.
AfterLogout(sn, st, d) ==
    IF BudgetExhausted(sn + 1, st)
    THEN [events |-> <<"logout_returned", "session_num", "exit">>,
          session_num |-> sn + 1, pc |-> "exited", exit_code |-> 0,
          slept |-> 0]
    ELSE [events |-> <<"logout_returned", "session_num", "sleep">>,
          session_num |-> sn + 1, pc |-> "running", exit_code |-> -1,
          slept |-> d]

\* Mutant: the session is counted although logout() raised.
AfterRaise_counted(sn) ==
    [events |-> <<"logout_raised", "session_num">>, session_num |-> sn + 1,
     pc |-> "raised", exit_code |-> -1, slept |-> 0]

\* What follows a logout() that raised: nothing catches the exception, the
\* call ends there.
AfterRaise(sn) ==
    [events |-> <<"logout_raised">>, session_num |-> sn, pc |-> "raised",
     exit_code |-> -1, slept |-> 0]

logout_break_roll(chance, sn, st, minb, maxb) ==
    {IF roll # chance
     THEN [roll |-> roll, events |-> <<"roll">>, session_num |-> sn,
           pc |-> "running", exit_code |-> -1, slept |-> 0]
     ELSE
     LET lo == logout(env)
         called == <<"roll", "logout">> \o lo.events
         after == IF lo.raised THEN AfterRaise(sn) ELSE AfterLogout(sn, st, d)
     IN  [roll |-> roll, events |-> called \o after.events,
          session_num |-> after.session_num, pc |-> after.pc,
          exit_code |-> after.exit_code, slept |-> after.slept]
     : roll \in randint(1, chance), env \in LogoutEnvs,
       d \in rand_seconds(BreakRange(minb, maxb).lo, BreakRange(minb, maxb).hi)}

----------------------------------------------------------------------------
(* logout_break_range(): the scheduler tick.                               *)

\* The four checked flags.
Checked == <<checkpoint_1_checked, checkpoint_2_checked,
             checkpoint_3_checked, checkpoint_4_checked>>

\* Mutant: the forced branch needs the clock to be past checkpoint 5.
Branch_lateForced(current_time) ==
    IF current_time >= checkpoint_1 /\ checkpoint_1_checked = FALSE THEN 1
    ELSE IF current_time >= checkpoint_2 /\ checkpoint_2_checked = FALSE THEN 2
    ELSE IF current_time >= checkpoint_3 /\ checkpoint_3_checked = FALSE THEN 3
    ELSE IF current_time >= checkpoint_4 /\ checkpoint_4_checked = FALSE THEN 4
    ELSE IF current_time > checkpoint_5 THEN 5
    ELSE 0

\* Mutant: checkpoint 1 is rolled when it is due or unchecked.
Branch_orFirst(current_time) ==
    IF current_time >= checkpoint_1 \/ checkpoint_1_checked = FALSE THEN 1
    ELSE IF current_time >= checkpoint_2 /\ checkpoint_2_checked = FALSE THEN 2
    ELSE IF current_time >= checkpoint_3 /\ checkpoint_3_checked = FALSE THEN 3
    ELSE IF current_time >= checkpoint_4 /\ checkpoint_4_checked = FALSE THEN 4
    ELSE IF current_time >= checkpoint_5 THEN 5
    ELSE 0

\* Mutant: checkpoint 2 is tested before checkpoint 1.
Branch_swapped(current_time) ==
    IF current_time >= checkpoint_2 /\ checkpoint_2_checked = FALSE THEN 2
    ELSE IF current_time >= checkpoint_1 /\ checkpoint_1_checked = FALSE THEN 1
    ELSE IF current_time >= checkpoint_3 /\ checkpoint_3_checked = FALSE THEN 3
    ELSE IF current_time >= checkpoint_4 /\ checkpoint_4_checked = FALSE THEN 4
    ELSE IF current_time >= checkpoint_5 THEN 5
    ELSE 0

\* The if/elif chain: the checkpoint the tick evaluates at current_time,
\* 5 for the forced last checkpoint, 0 for the else branch.
Branch(current_time) ==
    IF current_time >= checkpoint_1 /\ checkpoint_1_checked = FALSE THEN 1
    ELSE IF current_time >= checkpoint_2 /\ checkpoint_2_checked = FALSE THEN 2
    ELSE IF current_time >= checkpoint_3 /\ checkpoint_3_checked = FALSE THEN 3
    ELSE IF current_time >= checkpoint_4 /\ checkpoint_4_checked = FALSE THEN 4
    ELSE IF current_time >= checkpoint_5 THEN 5
    ELSE 0

\* Mutant: the forced branch rolls 1-in-5 like the others.
Chance_five(branch) == 5

\* The argument the branch passes to logout_break_roll.
Chance(branch) == IF branch = 5 THEN 1 ELSE 5

\* Mutant: a rolled checkpoint is not marked.
CheckedAfter_unmarked(k, branch, old) ==
    IF branch = 5 THEN FALSE
    ELSE old

\* The value of checkpoint_k_checked after the branch's assignments.
CheckedAfter(k, branch, old) ==
    IF branch = k THEN TRUE
    ELSE IF branch = 5 THEN FALSE
    ELSE old

\* Mutant: the else branch logs checkpoint 5's time once checkpoint 1 is
\* checked.
Logged_first == IF checkpoint_1_checked = FALSE THEN 1 ELSE 5

\* The else branch: the checkpoint whose time is logged (0: nothing logged).
Logged ==
    IF checkpoint_1_checked = FALSE THEN 1
    ELSE IF checkpoint_1_checked = TRUE /\ checkpoint_2_checked = FALSE THEN 2
    ELSE IF checkpoint_2_checked = TRUE /\ checkpoint_3_checked = FALSE THEN 3
    ELSE IF checkpoint_3_checked = TRUE /\ checkpoint_4_checked = FALSE THEN 4
    ELSE IF checkpoint_4_checked = TRUE THEN 5
    ELSE 0

\* The rolls of the current cycle: a roll after the forced one starts anew.
CycleAfter(entry) ==
    IF cycle # <<>> /\ cycle[Len(cycle)].branch = 5
    THEN <<entry>>
    ELSE Append(cycle, entry)

\* The time logout_break_roll logs as the end of a break that starts at
\* current_time and lasts wait_time_seconds.
stop_time(current_time, wait_time_seconds) ==
    current_time + (current_time + wait_time_seconds)

NoTick ==
    [t |-> 0, branch |-> 0, chance |-> 0, roll |-> 0, events |-> <<>>,
     logged |-> 0, slept |-> 0, returned |-> FALSE, start |-> 0,
     checked |-> <<FALSE, FALSE, FALSE, FALSE>>, sessions |-> 0,
     stop_time |-> 0]

\* The tick, as far as the scheduler's own state goes.
logout_break_range_step ==
    /\ pc = "running"
    /\ LET current_time == round(now)
           branch == Branch(current_time)
       IN  /\ checkpoint_1_checked' = CheckedAfter(1, branch, checkpoint_1_checked)
           /\ checkpoint_2_checked' = CheckedAfter(2, branch, checkpoint_2_checked)
           /\ checkpoint_3_checked' = CheckedAfter(3, branch, checkpoint_3_checked)
           /\ checkpoint_4_checked' = CheckedAfter(4, branch, checkpoint_4_checked)
           /\ IF branch = 0
              THEN /\ tick' = [t |-> current_time, branch |-> 0, chance |-> 0,
                               roll |-> 0, events |-> <<"log">>,
                               logged |-> Logged, slept |-> 0,
                               returned |-> TRUE, start |-> now,
                               checked |-> Checked, sessions |-> session_num,
                               stop_time |-> 0]
                   /\ UNCHANGED <<now, session_num, pc, exit_code, cycle>>
              ELSE \E o \in logout_break_roll(Chance(branch), session_num,
                                session_total, min_break_duration,
                                max_break_duration) :
                   /\ tick' = [t |-> current_time, branch |-> branch,
                               chance |-> Chance(branch), roll |-> o.roll,
                               events |-> o.events, logged |-> 0,
                               slept |-> o.slept,
                               returned |-> (o.pc = "running"), start |-> now,
                               checked |-> Checked, sessions |-> session_num,
                               stop_time |-> IF o.slept > 0
                                             THEN stop_time(now, o.slept)
                                             ELSE 0]
                   /\ now' = now + o.slept
                   /\ session_num' = o.session_num
                   /\ pc' = o.pc
                   /\ exit_code' = o.exit_code
                   /\ cycle' = CycleAfter([branch |-> branch,
                                           passed |-> (o.roll = Chance(branch))])
    /\ UNCHANGED <<checkpoint_1, checkpoint_2, checkpoint_3, checkpoint_4,
                   checkpoint_5, session_total, min_break_duration,
                   max_break_duration>>

\* The tick called on its own.
logout_break_range ==
    /\ logout_break_range_step
    /\ UNCHANGED <<travelVars, callVars>>

\* Time passes between two ticks (the caller's other work).
Advance ==
    /\ pc = "running"
    /\ now < checkpoint_5 * 1000 + ExtraClock
    /\ now' = now + ClockStep
    /\ UNCHANGED <<checkpoint_1, checkpoint_2, checkpoint_3, checkpoint_4,
                   checkpoint_5, checkpoint_1_checked, checkpoint_2_checked,
                   checkpoint_3_checked, checkpoint_4_checked, session_num,
                   session_total, min_break_duration, max_break_duration, pc,
                   exit_code, tick, cycle, travelVars, callVars>>

\* The state at start-up: five evenly spaced checkpoints, none checked.
SchedulerInit ==
    /\ now = 0
    /\ checkpoint_1 \in 1..MaxFirstCheckpoint
    /\ \E gap \in 1..MaxCheckpointGap :
          /\ checkpoint_2 = checkpoint_1 + gap
          /\ checkpoint_3 = checkpoint_1 + 2 * gap
          /\ checkpoint_4 = checkpoint_1 + 3 * gap
          /\ checkpoint_5 = checkpoint_1 + 4 * gap
    /\ checkpoint_1_checked = FALSE
    /\ checkpoint_2_checked = FALSE
    /\ checkpoint_3_checked = FALSE
    /\ checkpoint_4_checked = FALSE
    /\ session_num = 0
    /\ session_total \in 1..MaxSessions
    /\ min_break_duration \in 1..MaxBreakMinutes
    /\ max_break_duration \in min_break_duration..MaxBreakMinutes
    /\ pc = "running"
    /\ exit_code = -1
    /\ tick = NoTick
    /\ cycle = <<>>

----------------------------------------------------------------------------
(* travel(param_list, haystack_map, attempts): minimap navigation.         *)
(* A waypoint is a record of its four parameters; what ocv_find_location   *)
(* matches is the environment's choice at every loop iteration.            *)

\* Bound of the model: attempts is in 1..MaxAttempts.
MaxAttempts == 3

abs(x) == IF x < 0 THEN 0 - x ELSE x

\* Python's int() of n/2 for an integer n: truncation toward zero.
IntHalf(n) == IF n >= 0 THEN n \div 2 ELSE 0 - ((0 - n) \div 2)

\* The two waypoints of travel's docstring, and the second with a tolerance
\* of (4, 4).
WaypointA ==
    [waypoint |-> <<240, 399>>, coord_tolerance |-> 1,
     waypoint_tolerance |-> <<4, 4>>, sleep_range |-> <<5, 10>>]
WaypointB ==
    [waypoint |-> <<420, 401>>, coord_tolerance |-> 3,
     waypoint_tolerance |-> <<25, 25>>, sleep_range |-> <<5, 10>>]
WaypointC ==
    [waypoint |-> <<420, 401>>, coord_tolerance |-> 0,
     waypoint_tolerance |-> <<4, 4>>, sleep_range |-> <<5, 10>>]

ParamLists == {<<WaypointA>>, <<WaypointC>>, <<WaypointA, WaypointB>>}

\* Width and height of vision.minimap_slice, the needle of the match.
MinimapSlice == <<110, 73>>

\* The centres of the matches the environment may produce.
Centres ==
    {<<240, 399>>, <<238, 402>>, <<400, 401>>, <<420, 401>>, <<200, 399>>,
     <<100, 395>>, <<100, 300>>, <<300, 650>>, <<500, 405>>, <<180, 600>>,
     <<245, 340>>, <<236, 460>>}

\* ocv_find_location: (left, top, width, height) of the match.
ocv_find_location ==
    {<<c[1] - 55, c[2] - 36, MinimapSlice[1], MinimapSlice[2]>> : c \in Centres}

\* Mutant: the X coordinate is clamped 60 from the centre.
click_pos_x_clamp60(cx, dx, dy, r) ==
    IF dx >= 50
    THEN cx + 60 + r + (IF dy <= 10 THEN 13 ELSE 0)
    ELSE IF abs(dx) >= 50
    THEN cx - 60 + r - (IF abs(dy) <= 10 THEN 13 ELSE 0)
    ELSE cx + dx + r

\* The click's X coordinate for distances dx, dy, minimap centre cx and
\* random variation r (before abs).
click_pos_x(cx, dx, dy, r) ==
    IF dx >= 50
    THEN cx + 50 + r + (IF dy <= 10 THEN 13 ELSE 0)
    ELSE IF abs(dx) >= 50
    THEN cx - 50 + r - (IF abs(dy) <= 10 THEN 13 ELSE 0)
    ELSE cx + dx + r

\* Mutant: the unclamped Y coordinate gets no jitter.
click_pos_y_noJitter(cy, dx, dy, r) ==
    IF dy >= 50
    THEN cy + 50 + r + (IF dx <= 10 THEN 13 ELSE 0)
    ELSE IF abs(dy) >= 50
    THEN cy - 50 + r - (IF abs(dx) <= 10 THEN 13 ELSE 0)
    ELSE cy + dy

\* The same for the Y coordinate.
click_pos_y(cy, dx, dy, r) ==
    IF dy >= 50
    THEN cy + 50 + r + (IF dx <= 10 THEN 13 ELSE 0)
    ELSE IF abs(dy) >= 50
    THEN cy - 50 + r - (IF abs(dx) <= 10 THEN 13 ELSE 0)
    ELSE cy + dy + r

\* Mutant: the arrival check looks at the X axis only.
Arrived_xOnly(dx, dy, tol) == abs(dx) <= tol[1]

\* The player is within the waypoint's tolerance on both axes.
Arrived(dx, dy, tol) == abs(dx) <= tol[1] /\ abs(dy) <= tol[2]

\* range(1, attempts)
AttemptRange(n) == 1..(n - 1)

\* The ctrl key: whether it is held, and whether every keyDown so far found
\* it released and every keyUp found it held.
NoKey == [held |-> FALSE, alternate |-> TRUE]

\* The ctrl key after pag.keyDown('ctrl') and pag.keyUp('ctrl') as they
\* occur in events.
RECURSIVE Keys(_, _)
Keys(key, events) ==
    IF events = <<>>
    THEN key
    ELSE Keys(IF Head(events) = "keyDown"
              THEN [held |-> TRUE, alternate |-> key.alternate /\ ~key.held]
              ELSE IF Head(events) = "keyUp"
              THEN [held |-> FALSE, alternate |-> key.alternate /\ key.held]
              ELSE key,
              Tail(events))

\* Mutant: ctrl is released after the sleep.
ClickEvents_keyUpLate == <<"locate", "keyDown", "click", "sleep", "keyUp">>

\* What an iteration that has not arrived does, in order.
ClickEvents == <<"locate", "keyDown", "click", "keyUp", "sleep">>

NoIter ==
    [wp |-> 0, attempt |-> 0, coords |-> <<0, 0>>, distance |-> <<0, 0>>,
     arrived |-> FALSE, rand |-> <<0, 0>>, click_pos |-> <<0, 0>>,
     events |-> <<>>, ctrl |-> NoKey]

\* The for loop over param_list moves on from waypoint w: to the next
\* waypoint if it has a first attempt, else past the loop to "return True".
NextWaypoint(w, list, n) ==
    IF w + 1 <= Len(list) /\ AttemptRange(n) # {}
    THEN [travel_pc |-> "loop", wp |-> w + 1, attempt |-> 1,
          travel_result |-> "none"]
    ELSE [travel_pc |-> "returned", wp |-> Len(list) + 1, attempt |-> 0,
          travel_result |-> TRUE]

\* travel() is called.
travel_call ==
    /\ travel_pc = "idle"
    /\ \E list \in ParamLists, n \in 1..MaxAttempts :
          LET first == NextWaypoint(0, list, n)
          IN  /\ param_list' = list
              /\ attempts' = n
              /\ travel_pc' = first.travel_pc
              /\ wp' = first.wp
              /\ attempt' = first.attempt
              /\ travel_result' = first.travel_result
              /\ clicks' = [i \in 1..Len(list) |-> 0]
    /\ UNCHANGED <<client, observed, iter, schedVars, callVars>>

\* One iteration of the inner loop, with the loop control that follows it.
travel_iteration ==
    /\ travel_pc = "loop"
    /\ IF attempt > attempts
       THEN /\ travel_pc' = "returned"
            /\ travel_result' = FALSE
            /\ UNCHANGED <<wp, attempt, observed, clicks, iter>>
       ELSE \E coords \in ocv_find_location :
            LET params == param_list[wp]
                coords_map_x == IntHalf(2 * coords[1] + coords[3])
                coords_map_y == IntHalf(2 * coords[2] + coords[4])
                coords_client_x == client[1] + 642
                coords_client_y == client[2] + 85
                dx == params.waypoint[1] - coords_map_x
                dy == params.waypoint[2] - coords_map_y
                next == NextWaypoint(wp, param_list, attempts)
            IN  IF Arrived(dx, dy, params.waypoint_tolerance)
                THEN /\ observed' = observed \cup {wp}
                     /\ iter' = [wp |-> wp, attempt |-> attempt,
                                 coords |-> <<coords_map_x, coords_map_y>>,
                                 distance |-> <<dx, dy>>, arrived |-> TRUE,
                                 rand |-> <<0, 0>>, click_pos |-> <<0, 0>>,
                                 events |-> <<"locate">>,
                                 ctrl |-> Keys(iter.ctrl, <<"locate">>)]
                     /\ travel_pc' = next.travel_pc
                     /\ wp' = next.wp
                     /\ attempt' = next.attempt
                     /\ travel_result' = next.travel_result
                     /\ UNCHANGED clicks
                ELSE /\ \E rx \in randint(0 - params.coord_tolerance,
                                          params.coord_tolerance),
                           ry \in randint(0 - params.coord_tolerance,
                                          params.coord_tolerance) :
                        LET x == abs(click_pos_x(coords_client_x, dx, dy, rx))
                            y == abs(click_pos_y(coords_client_y, dx, dy, ry))
                        IN  iter' = [wp |-> wp, attempt |-> attempt,
                                     coords |-> <<coords_map_x, coords_map_y>>,
                                     distance |-> <<dx, dy>>,
                                     arrived |-> FALSE,
                                     rand |-> <<rx, ry>>,
                                     click_pos |-> <<x, y>>,
                                     events |-> ClickEvents,
                                     ctrl |-> Keys(iter.ctrl, ClickEvents)]
                     /\ clicks' = [clicks EXCEPT ![wp] = @ + 1]
                     /\ UNCHANGED observed
                     /\ IF Arrived(dx, dy, params.waypoint_tolerance)
                           \/ attempt + 1 \notin AttemptRange(attempts)
                        THEN /\ travel_pc' = next.travel_pc
                             /\ wp' = next.wp
                             /\ attempt' = next.attempt
                             /\ travel_result' = next.travel_result
                        ELSE /\ attempt' = attempt + 1
                             /\ UNCHANGED <<travel_pc, wp, travel_result>>
    /\ UNCHANGED <<client, param_list, attempts, schedVars, callVars>>

\* Axis deltas and jitter tolerances for which the click computation is
\* applied on its own.
Deltas == {-201, -60, -50, -49, -11, -10, 0, 10, 11, 20, 49, 50, 60, 180}

CoordTolerances == {0, 1, 3, 40}

\* Draws of rand.randint(-coord_tolerance, coord_tolerance): both ends, the
\* middle and its neighbours.
JitterDraws(coord_tolerance) ==
    {r \in randint(0 - coord_tolerance, coord_tolerance) :
        r \in {0 - coord_tolerance, -1, 0, 1, coord_tolerance}}

NoClick ==
    [distance |-> <<0, 0>>, coord_tolerance |-> 0, rand |-> <<0, 0>>,
     centre |-> <<0, 0>>, raw |-> <<0, 0>>, click_pos |-> <<0, 0>>,
     done |-> FALSE]

\* The click position of one iteration that has not arrived: the minimap
\* centre, one jitter per axis, the clamped and boosted coordinates and
\* their absolute values.
travel_click ==
    /\ ~click.done
    /\ \E dx \in Deltas, dy \in Deltas, coord_tolerance \in CoordTolerances :
       \E rx \in JitterDraws(coord_tolerance),
          ry \in JitterDraws(coord_tolerance) :
          LET coords_client_x == client[1] + 642
              coords_client_y == client[2] + 85
              x == click_pos_x(coords_client_x, dx, dy, rx)
              y == click_pos_y(coords_client_y, dx, dy, ry)
          IN  click' = [distance |-> <<dx, dy>>,
                        coord_tolerance |-> coord_tolerance,
                        rand |-> <<rx, ry>>,
                        centre |-> <<coords_client_x, coords_client_y>>,
                        raw |-> <<x, y>>,
                        click_pos |-> <<abs(x), abs(y)>>,
                        done |-> TRUE]
    /\ UNCHANGED <<screen, start_time, call, travelVars, schedVars>>

\* Before travel() is called.
TravelInit ==
    /\ travel_pc = "idle"
    /\ client = <<0, 0>>
    /\ param_list = <<>>
    /\ attempts = 0
    /\ wp = 0
    /\ attempt = 0
    /\ travel_result = "none"
    /\ observed = {}
    /\ clicks = <<>>
    /\ iter = NoIter
    /\ click = NoClick

\* No behavior function has been called yet.
CallInit ==
    /\ screen = "logged_in"
    /\ start_time = 0
    /\ call = [fn |-> "none"]

----------------------------------------------------------------------------
(* login_full(): the screens of one round of its loop are the             *)
(* environment's choice, a record:                                         *)
(*   login      : what login_basic() returns                               *)
(*   postlogin  : the post-login button is found and clicked               *)
(*   logged_in  : the logged-in orientation needle is detected             *)
(*   invalid    : the invalid-credentials message is detected              *)
(* Events: "login_basic" the call, "click_needle" a Vision.click_needle()  *)
(* call, followed by "click" when it found and clicked its needle,         *)
(* "start_time" the reset of start.start_time, "keyDown"/"keyUp" the Up    *)
(* key, "sleep" a misc.sleep_rand().                                       *)

\* The rounds of login_full's loop: range(1, 3).
LoginRounds == 2

LoginScreens ==
    {[login |-> FALSE, postlogin |-> FALSE, logged_in |-> FALSE,
      invalid |-> FALSE],
     [login |-> TRUE, postlogin |-> TRUE, logged_in |-> TRUE,
      invalid |-> FALSE],
     [login |-> TRUE, postlogin |-> TRUE, logged_in |-> FALSE,
      invalid |-> FALSE],
     [login |-> TRUE, postlogin |-> FALSE, logged_in |-> FALSE,
      invalid |-> TRUE],
     [login |-> TRUE, postlogin |-> FALSE, logged_in |-> FALSE,
      invalid |-> FALSE]}

\* The rounds of a login_full that waits for the logged-in needle but does
\* not use its result.
RECURSIVE login_rounds_noDetect(_, _, _)
login_rounds_noDetect(env, k, done) ==
    IF k > LoginRounds
    THEN [raised |-> TRUE, result |-> "none", events |-> done]
    ELSE
    LET called == done \o <<"login_basic">>
    IN  IF env[k].login = FALSE
        THEN [raised |-> TRUE, result |-> "none", events |-> called]
        ELSE IF env[k].postlogin
        THEN LET waited == called \o <<"sleep", "click_needle", "click",
                                       "sleep", "vision">>
             IN  [raised |-> FALSE, result |-> TRUE,
                  events |-> waited \o <<"start_time", "keyDown", "sleep",
                                         "keyUp">>]
        ELSE LET looked == called \o <<"sleep", "click_needle", "vision">>
             IN  IF env[k].invalid
                 THEN [raised |-> TRUE, result |-> "none", events |-> looked]
                 ELSE login_rounds_noDetect(env, k + 1, looked)

\* login_full from round k of its loop on, after the events done.
RECURSIVE login_rounds(_, _, _)
login_rounds(env, k, done) ==
    IF k > LoginRounds
    THEN [raised |-> TRUE, result |-> "none", events |-> done]
    ELSE
    LET called == done \o <<"login_basic">>
    IN  IF env[k].login = FALSE
        THEN [raised |-> TRUE, result |-> "none", events |-> called]
        ELSE IF env[k].postlogin
        THEN LET waited == called \o <<"sleep", "click_needle", "click",
                                       "sleep", "vision">>
             IN  IF env[k].logged_in
                 THEN [raised |-> FALSE, result |-> TRUE,
                       events |-> waited \o <<"start_time", "keyDown",
                                              "sleep", "keyUp">>]
                 ELSE [raised |-> TRUE, result |-> "none", events |-> waited]
        ELSE LET looked == called \o <<"sleep", "click_needle", "vision">>
             IN  IF env[k].invalid
                 THEN [raised |-> TRUE, result |-> "none", events |-> looked]
                 ELSE login_rounds(env, k + 1, looked)

\* Mutant: login_full with the logged-in needle's result unused.
login_full_noDetect(env) == login_rounds_noDetect(env, 1, <<>>)

login_full(env) == login_rounds(env, 1, <<>>)

----------------------------------------------------------------------------
(* drop_item(): the environment's choice is a record env:                  *)
(*   stone : as for open_side_stone, for the inventory side stone          *)
(*   item  : 0 the item is not detected at first, k in 1..40 the whole-    *)
(*           inventory search of round k is the first not to detect it,    *)
(*           41 it is detected in every search                             *)
(* Events: "keyDown"/"keyUp" the shift key, "click_needle" a search of one *)
(* half of the inventory that clicks the item if found, "vision" a search  *)
(* of the whole inventory, "sleep" misc.sleep_rand_roll().                 *)

\* The rounds of drop_item's loop: range(40).
DropRounds == 40

\* One round of drop_item's loop.
DropRound ==
    <<"keyDown", "click_needle", "click_needle", "vision", "sleep", "keyUp">>

\* Mutant: True is returned when the rounds run out.
drop_item_trueAtEnd(env) ==
    LET stone == open_side_stone(env.stone)
        pre == stone.events \o <<"vision">>
    IN  IF stone.raised
        THEN [raised |-> TRUE, result |-> "none", events |-> stone.events]
        ELSE IF env.item = 0
        THEN [raised |-> FALSE, result |-> FALSE, events |-> pre]
        ELSE IF env.item \in 1..DropRounds
        THEN [raised |-> FALSE, result |-> TRUE,
              events |-> pre \o Flat(Rep(DropRound, env.item))]
        ELSE [raised |-> FALSE, result |-> TRUE,
              events |-> pre \o Flat(Rep(DropRound, DropRounds))]

drop_item(env) ==
    LET stone == open_side_stone(env.stone)
        pre == stone.events \o <<"vision">>
    IN  IF stone.raised
        THEN [raised |-> TRUE, result |-> "none", events |-> stone.events]
        ELSE IF env.item = 0
        THEN [raised |-> FALSE, result |-> FALSE, events |-> pre]
        ELSE IF env.item \in 1..DropRounds
        THEN [raised |-> FALSE, result |-> TRUE,
              events |-> pre \o Flat(Rep(DropRound, env.item))]
        ELSE [raised |-> FALSE, result |-> FALSE,
              events |-> pre \o Flat(Rep(DropRound, DropRounds))]

----------------------------------------------------------------------------
(* The behavior functions called on their own, one call per step.  The     *)
(* history variable call keeps the last call: its function fn, its env,    *)
(* the screen before it, the time of the call (at), whether it follows a   *)
(* logout() that returned True (after_logout) and its outcome.             *)

\* The call ran to the end of its body without a return statement, so it
\* returned None: its last event is "end".
ReturnedNone(out) ==
    /\ ~out.raised
    /\ out.events # <<>>
    /\ out.events[Len(out.events)] = "end"

\* The call returned the value v.
Returned(out, v) == ~out.raised /\ ~ReturnedNone(out) /\ out.result = v

\* vis.orient(): the client's status and where it was seen.
orient(s) == <<s, <<0, 0>>>>

\* Whether the last call was a logout() that returned True, and how:
\* "clicked" after clicking a logout button, "already" without any click.
LastLogout ==
    IF call.fn = "logout" /\ Returned(call, TRUE)
    THEN IF Count(call.events, "click") > 0 THEN "clicked" ELSE "already"
    ELSE "no"

CallRecord(fn, env, out) ==
    [fn |-> fn, env |-> env, before |-> screen, at |-> now,
     after_logout |-> LastLogout, raised |-> out.raised,
     result |-> out.result, events |-> out.events]

\* What a logout() call can meet on a screen s.
LogoutScreens(s) ==
    IF orient(s)[1] = "logged_out"
    THEN {[already |-> TRUE, stone |-> 0, button |-> 1, detect |-> 0]}
    ELSE {[already |-> FALSE, stone |-> st, button |-> b, detect |-> d] :
             st \in 0..(StoneRounds + 1), b \in {0, 1, 2, 3, 12},
             d \in {0, 1, 4, 5}}

logout_call ==
    /\ \E env \in LogoutScreens(screen) :
          LET out == logout(env)
          IN  /\ call' = CallRecord("logout", env, out)
              /\ screen' \in IF Returned(out, TRUE)
                             THEN {"logged_out"}
                             ELSE IF Count(out.events, "click") > 0
                             THEN {"logged_in", "logged_out"}
                             ELSE {screen}
    /\ UNCHANGED <<click, start_time, travelVars, schedVars>>

open_side_stone_call ==
    /\ \E stone \in 0..(StoneRounds + 1) :
          call' = CallRecord("open_side_stone", stone, open_side_stone(stone))
    /\ UNCHANGED <<click, screen, start_time, travelVars, schedVars>>

login_full_call ==
    /\ \E env \in [1..LoginRounds -> LoginScreens] :
          LET out == login_full(env)
          IN  /\ call' = CallRecord("login_full", env, out)
              /\ screen' \in IF Returned(out, TRUE)
                             THEN {"logged_in"}
                             ELSE IF Count(out.events, "click") > 0
                             THEN {"logged_in", "logged_out"}
                             ELSE {screen}
              /\ start_time' = IF Count(out.events, "start_time") > 0
                               THEN now
                               ELSE start_time
    /\ UNCHANGED <<click, travelVars, schedVars>>

\* Time passes between two calls, up to MaxCallClock.
call_wait == now < MaxCallClock /\ Advance

drop_item_call ==
    /\ \E stone \in 0..(StoneRounds + 1),
          item \in {0, 1, 2, DropRounds, DropRounds + 1} :
          LET env == [stone |-> stone, item |-> item]
          IN  call' = CallRecord("drop_item", env, drop_item(env))
    /\ UNCHANGED <<click, screen, start_time, travelVars, schedVars>>

----------------------------------------------------------------------------
(* skills.py: Cooking.cook_item().  The environment's choice is a record:  *)
(*   stone    : as for open_side_stone, for the inventory side stone       *)
(*   stage    : "no_item", "no_heat", "no_do_x" the needle that is not     *)
(*              found, "cooking" when all three are found                  *)
(*   done     : k in 1..59 the cooking-done needle is first seen in round  *)
(*              k of the wait loop, 60 it is never seen                    *)
(*   level_up : k in 1..59 a level-up message is seen in round k of the    *)
(*              wait loop, 0 never                                         *)
(*   levels   : the number of level-up checks in a row that see the        *)
(*              message, counted over the nested calls; MaxDepth or more   *)
(*              when the message stays on the screen                       *)
(* The nested cook_item() of a level-up starts over with the inventory     *)
(* open and meets the same screen.  A call nested deeper than MaxDepth     *)
(* calls stands for the interpreter's recursion limit and raises.          *)
(* Events: as above; "keypress" the space key, "cook_item" the nested call *)
(* of a level-up, whose return value is not used, followed by that call's  *)
(* events; "RecursionError" the recursion limit.                           *)

\* The rounds of cook_item's wait loop: range(1, 60).
CookRounds == 59

\* A round of the wait loop without a level-up.
CookRound == <<"sleep", "vision", "vision">>

\* The last round the wait loop runs: the one that sees the cooking done.
CookLast(env) == IF env.done <= CookRounds THEN env.done ELSE CookRounds

\* cook_item() as the depth-th nested call, with levels level-up messages
\* still to come.
RECURSIVE cook_frames(_, _, _)
cook_frames(env, levels, depth) ==
    IF depth > MaxDepth
    THEN [raised |-> TRUE, result |-> "none", events |-> <<"RecursionError">>]
    ELSE
    LET stone == open_side_stone(IF depth = 1 THEN env.stone ELSE 0)
        item == stone.events \o <<"click_needle">>
        heat == item \o <<"click", "click_needle">>
        do_x == heat \o <<"click", "sleep", "vision">>
        begun == do_x \o <<"keypress", "sleep">>
        last == CookLast(env)
    IN  IF stone.raised
        THEN [raised |-> TRUE, result |-> "none", events |-> stone.events]
        ELSE IF env.stage = "no_item"
        THEN [raised |-> FALSE, result |-> FALSE, events |-> item]
        ELSE IF env.stage = "no_heat"
        THEN [raised |-> FALSE, result |-> FALSE, events |-> heat]
        ELSE IF env.stage = "no_do_x"
        THEN [raised |-> FALSE, result |-> FALSE, events |-> do_x]
        ELSE IF env.level_up \in 1..last /\ levels > 0
        THEN LET nested == cook_frames(env, levels - 1, depth + 1)
                 called == begun \o Flat(Rep(CookRound, env.level_up - 1))
                               \o <<"sleep", "vision", "cook_item">>
                               \o nested.events
             IN  IF nested.raised
                 THEN [raised |-> TRUE, result |-> "none", events |-> called]
                 ELSE [raised |-> FALSE, result |-> TRUE,
                       events |-> called \o <<"vision">>
                           \o Flat(Rep(CookRound, last - env.level_up))
                           \o <<"sleep">>]
        ELSE [raised |-> FALSE, result |-> TRUE,
              events |-> begun \o Flat(Rep(CookRound, last)) \o <<"sleep">>]

cook_item(env) == cook_frames(env, env.levels, 1)

\* What a cook_item() call can meet.
CookScreens ==
    {[stone |-> st, stage |-> sg, done |-> 1, level_up |-> 0,
      levels |-> 0] :
        st \in {0, 1, StoneRounds + 1},
        sg \in {"no_item", "no_heat", "no_do_x"}}
    \cup
    {[stone |-> st, stage |-> "cooking", done |-> d, level_up |-> 0,
      levels |-> 0] :
        st \in {0, 1}, d \in {1, 2, CookRounds, CookRounds + 1}}
    \cup
    {[stone |-> st, stage |-> "cooking", done |-> d, level_up |-> l,
      levels |-> n] :
        st \in {0, 1}, d \in {2, CookRounds + 1}, l \in {1, 2},
        n \in 1..MaxDepth}

\* No function has been called yet: the functions of skills.py are each
\* called once, at any time up to MaxCallClock.
FirstCall == pc = "running" /\ call.fn = "none"

cook_item_call ==
    /\ FirstCall
    /\ \E env \in CookScreens :
          call' = CallRecord("cook_item", env, cook_item(env))
    /\ UNCHANGED <<click, screen, start_time, travelVars, schedVars>>

----------------------------------------------------------------------------
(* skills.py: Magic.cast_spell() with _select_spell() and _select_target() *)
(* (written select_spell, select_target).  The environment's choice is a   *)
(* record env:                                                             *)
(*   logout    : self.logout                                               *)
(*   inventory : self.inventory                                            *)
(*   spell     : k in 1..4 the spell is clicked in round k of              *)
(*               _select_spell's loop, 0 never                             *)
(*   target    : the same for the target and _select_target's loop         *)
(*   logout_ok : a logout() of a logged-in client finds its button and     *)
(*               logs out (else it raises)                                 *)
(*   login_ok  : a login_full() logs in at its first round (else it raises)*)
(* The side stones asked for are found open.  The outcome records also     *)
(* give the screen the call leaves and whether login_full() logged in.     *)

\* The rounds of both selection loops: range(1, 5).
SelectRounds == 4

\* What logout() meets on screen s.
SpellLogout(env, s) ==
    [already |-> orient(s)[1] = "logged_out", stone |-> 0,
     button |-> IF env.logout_ok THEN 1 ELSE 0, detect |-> 0]

\* What login_full() meets.
SpellLogin(env) ==
    [k \in 1..LoginRounds |->
        [login |-> env.login_ok, postlogin |-> env.login_ok,
         logged_in |-> env.login_ok, invalid |-> FALSE]]

\* One round of _select_spell's loop that does not find the spell.
SpellRoundFail == <<"click_needle">> \o open_side_stone(0).events \o <<"sleep">>

select_spell(env) ==
    IF env.spell \in 1..SelectRounds
    THEN [raised |-> FALSE, result |-> TRUE,
          events |-> Flat(Rep(SpellRoundFail, env.spell - 1))
                        \o <<"click_needle", "click">>]
    ELSE [raised |-> FALSE, result |-> FALSE,
          events |-> Flat(Rep(SpellRoundFail, SelectRounds))]

\* _select_target from round k of its loop on, on screen s, after the
\* events done; login tells whether a login_full() has logged in.
RECURSIVE target_rounds(_, _, _, _, _)
target_rounds(env, k, s, login, done) ==
    IF k > SelectRounds
    THEN [raised |-> FALSE, result |-> FALSE, events |-> done, screen |-> s,
          login |-> login]
    ELSE IF env.target = k
    THEN [raised |-> FALSE, result |-> TRUE,
          events |-> done \o <<"click_needle", "click">>, screen |-> s,
          login |-> login]
    ELSE
    LET looked == done \o <<"click_needle">>
                      \o (IF env.inventory THEN open_side_stone(0).events
                          ELSE <<>>)
                      \o <<"vision">>
    IN  IF orient(s)[1] = "logged_out"
        THEN LET li == login_full(SpellLogin(env))
                 called == looked \o <<"login_full">> \o li.events
             IN  IF li.raised
                 THEN [raised |-> TRUE, result |-> "none", events |-> called,
                       screen |-> s, login |-> login]
                 ELSE target_rounds(env, k + 1, "logged_in", TRUE,
                                    called \o <<"sleep">>)
        ELSE target_rounds(env, k + 1, s, login, looked \o <<"sleep">>)

select_target(env, s) == target_rounds(env, 1, s, FALSE, <<>>)

\* The branch of cast_spell taken when a selection has failed, on screen s
\* after the events done: with self.logout a sleep and logout(), after
\* which cast_spell goes on; without it, return False.
SelectionFailed(env, s, done) ==
    IF env.logout
    THEN LET lo == logout(SpellLogout(env, s))
             called == done \o <<"sleep", "logout">> \o lo.events
         IN  IF lo.raised
             THEN [raised |-> TRUE, result |-> "none", events |-> called,
                   screen |-> s, goes_on |-> FALSE]
             ELSE [raised |-> FALSE, result |-> "none", events |-> called,
                   screen |-> "logged_out", goes_on |-> TRUE]
    ELSE [raised |-> FALSE, result |-> FALSE, events |-> done, screen |-> s,
          goes_on |-> FALSE]

\* cast_spell on screen s, up to its call of logout_break_range() (ticks)
\* or its end.
cast_spell(env, s) ==
    LET spell == select_spell(env)
        first == IF spell.result = FALSE
                 THEN SelectionFailed(env, s, spell.events)
                 ELSE [raised |-> FALSE, result |-> "none",
                       events |-> spell.events, screen |-> s,
                       goes_on |-> TRUE]
        target == select_target(env, first.screen)
        found == first.events \o target.events
        second == IF target.raised
                  THEN [raised |-> TRUE, result |-> "none", events |-> found,
                        screen |-> target.screen, goes_on |-> FALSE]
                  ELSE IF target.result = FALSE
                  THEN SelectionFailed(env, target.screen, found)
                  ELSE [raised |-> FALSE, result |-> "none", events |-> found,
                        screen |-> target.screen, goes_on |-> TRUE]
    IN  IF ~first.goes_on
        THEN [raised |-> first.raised, result |-> first.result,
              events |-> first.events, screen |-> first.screen,
              login |-> FALSE, ticks |-> FALSE]
        ELSE IF ~second.goes_on
        THEN [raised |-> second.raised, result |-> second.result,
              events |-> second.events, screen |-> second.screen,
              login |-> target.login, ticks |-> FALSE]
        ELSE [raised |-> FALSE, result |-> TRUE,
              events |-> second.events \o <<"sleep", "sleep">>,
              screen |-> second.screen, login |-> target.login,
              ticks |-> env.logout]

\* What a cast_spell() call can meet.
SpellScreens ==
    [logout : BOOLEAN, inventory : BOOLEAN, spell : {0, 1, 2},
     target : {0, 1, 2}, logout_ok : BOOLEAN, login_ok : BOOLEAN]

cast_spell_call ==
    /\ FirstCall
    /\ \E env \in SpellScreens :
          LET out == cast_spell(env, screen)
          IN  /\ start_time' = IF out.login THEN now ELSE start_time
              /\ IF out.ticks
                 THEN /\ logout_break_range_step
                      /\ call' = CallRecord("cast_spell", env,
                            [raised |-> ~tick'.returned,
                             result |-> IF tick'.returned THEN TRUE
                                        ELSE "none",
                             events |-> out.events
                                 \o <<"logout_break_range">> \o tick'.events])
                      /\ screen' = IF Count(tick'.events, "logout_returned") > 0
                                   THEN "logged_out"
                                   ELSE out.screen
                 ELSE /\ call' = CallRecord("cast_spell", env, out)
                      /\ screen' = out.screen
                      /\ UNCHANGED schedVars
    /\ UNCHANGED <<click, travelVars>>

----------------------------------------------------------------------------
(* skills.py: Mining.drop_inv_ore().  The environment's choice is a record:*)
(*   ore       : what drop_item() meets for the ore (stone, item)          *)
(*   flags     : the five flags of Mining.drop_items, in the list's order  *)
(*   gem       : what drop_item() meets for an optional item               *)
(*   logout_ok : as for cast_spell                                         *)
(* Events: "ore" and the name of an optional item mark the drop_item()     *)
(* call for that item and are followed by the call's events; "logout" the  *)
(* logout() call; "end" the end of the body, reached without a return.     *)

\* The optional items of Mining.drop_items, in the list's order.
DropItems ==
    <<"uncut-sapphire", "uncut-emerald", "uncut-ruby", "uncut-diamong",
      "clue-geode">>

\* The items of the loop over Mining.drop_items from item k on, after the
\* events done: the first enabled item is dropped and True is returned.
RECURSIVE drop_items_from(_, _, _, _)
drop_items_from(env, k, s, done) ==
    IF k > Len(DropItems)
    THEN [raised |-> FALSE, result |-> "none", events |-> done \o <<"end">>,
          screen |-> s]
    ELSE IF env.flags[k] = TRUE
    THEN LET gem == drop_item(env.gem)
         IN  [raised |-> gem.raised,
              result |-> IF gem.raised THEN "none" ELSE TRUE,
              events |-> done \o <<DropItems[k]>> \o gem.events,
              screen |-> s]
    ELSE drop_items_from(env, k + 1, s, done)

drop_inv_ore(env, s) ==
    LET ore_dropped == drop_item(env.ore)
        tried == <<"ore">> \o ore_dropped.events
    IN  IF ore_dropped.raised
        THEN [raised |-> TRUE, result |-> "none", events |-> tried,
              screen |-> s]
        ELSE IF ore_dropped.result = FALSE
        THEN LET lo == logout(SpellLogout(env, s))
             IN  [raised |-> TRUE, result |-> "none",
                  events |-> tried \o <<"logout">> \o lo.events
                      \o (IF lo.raised THEN <<>> ELSE <<"raise">>),
                  screen |-> IF lo.raised THEN s ELSE "logged_out"]
        ELSE drop_items_from(env, 1, s, tried)

\* What a drop_inv_ore() call can meet.
OreScreens ==
    {[ore |-> [stone |-> st, item |-> i], flags |-> f,
      gem |-> [stone |-> 0, item |-> g], logout_ok |-> ok] :
        st \in {0, StoneRounds + 1}, i \in {0, 1, DropRounds + 1},
        f \in [1..Len(DropItems) -> BOOLEAN], g \in {0, 1},
        ok \in BOOLEAN}

drop_inv_ore_call ==
    /\ FirstCall
    /\ \E env \in OreScreens :
          LET out == drop_inv_ore(env, screen)
          IN  /\ call' = CallRecord("drop_inv_ore", env, out)
              /\ screen' = out.screen
    /\ UNCHANGED <<click, start_time, travelVars, schedVars>>

----------------------------------------------------------------------------
(* The Vision Engine's locate(needle, region, confidence, attempts,        *)
(* pollIntervalRange), as its contract and algorithm describe it.  Sizes   *)
(* are <<width, height>> in pixels, scores and the confidence threshold    *)
(* are in hundredths (0.95 is 95), durations in ms.  The input is a record *)
(* env of the five arguments and of what the screen and the random source  *)
(* give during the call:                                                   *)
(*   scores : scores[k] is the global maximum of the correlation in the    *)
(*            k-th capture                                                 *)
(*   at     : <<left, top>> of that maximum, relative to the region        *)
(*   naps   : naps[k] is the duration drawn for the sleep after the k-th   *)
(*            capture                                                      *)
(* The outcome gives match, the Optional<MatchRect> as a sequence of at    *)
(* most one record that also keeps the score, and slept, the total of the  *)
(* sleeps.  Events: "capture" and "sleep".                                 *)

\* Mutant: a region counts as smaller only when both sides are smaller.
Smaller_both(region, needle) ==
    region[1] < needle[1] /\ region[2] < needle[2]

\* The region is smaller than the needle: the needle does not fit in it.
Smaller(region, needle) ==
    region[1] < needle[1] \/ region[2] < needle[2]

\* Mutant: scores up to 0.05 below the threshold are accepted.
Accepts_below(score, confidence) == score >= confidence - 5

\* A capture's score is accepted.
Accepts(score, confidence) == score >= confidence

NotFound(done, slept) ==
    [raised |-> FALSE, result |-> FALSE, events |-> done, match |-> <<>>,
     slept |-> slept]

\* Mutant: a sleep also follows the accepted capture.
Found_sleeps(env, k, done, slept) ==
    [raised |-> FALSE, result |-> TRUE, events |-> done \o <<"sleep">>,
     match |-> <<[left |-> env.at[1], top |-> env.at[2],
                  width |-> env.needle[1], height |-> env.needle[2],
                  score |-> env.scores[k]]>>,
     slept |-> slept + env.naps[k]]

\* The k-th capture is accepted, after the events done and slept ms asleep.
Found(env, k, done, slept) ==
    [raised |-> FALSE, result |-> TRUE, events |-> done,
     match |-> <<[left |-> env.at[1], top |-> env.at[2],
                  width |-> env.needle[1], height |-> env.needle[2],
                  score |-> env.scores[k]]>>,
     slept |-> slept]

\* locate from its k-th attempt on.
RECURSIVE locate_rounds(_, _, _, _)
locate_rounds(env, k, done, slept) ==
    IF k > env.attempts
    THEN NotFound(done, slept)
    ELSE IF Accepts(env.scores[k], env.confidence)
    THEN Found(env, k, done \o <<"capture">>, slept)
    ELSE locate_rounds(env, k + 1, done \o <<"capture", "sleep">>,
                       slept + env.naps[k])

locate(env) ==
    IF Smaller(env.region, env.needle)
    THEN NotFound(<<>>, 0)
    ELSE locate_rounds(env, 1, <<>>, 0)

\* The scores a capture can give and the thresholds of the call sites.
Scores == {50, 90, 95}
Confidences == {1, 90, 100}

\* The sizes of needles and regions.
Sides == 1..MaxSide
NeedleSizes == {<<1, 1>>, <<MaxSide, MaxSide>>}

\* Where a needle can be matched in a region: the origin, and the far
\* corner when the needle fits there.
MatchPlaces(region, needle) ==
    {<<0, 0>>} \cup
    (IF Smaller(region, needle) THEN {}
     ELSE {<<region[1] - needle[1], region[2] - needle[2]>>})

\* The sleep durations pollIntervalRange allows.
Naps(pollIntervalRange) == pollIntervalRange[1]..pollIntervalRange[2]

\* What a locate() call can be given and can meet.
LocateInputs ==
    UNION {
        {[needle |-> n, region |-> <<w, h>>, confidence |-> c,
          attempts |-> a, pollIntervalRange |-> <<1, MaxPollInterval>>,
          scores |-> sc, at |-> p, naps |-> np] :
            sc \in [1..a -> Scores], p \in MatchPlaces(<<w, h>>, n),
            np \in [1..a -> Naps(<<1, MaxPollInterval>>)]} :
        n \in NeedleSizes, w \in Sides, h \in Sides, c \in Confidences,
        a \in 1..MaxLocateAttempts}

\* One locate() call: the caller is asleep for the total of its sleeps.
locate_call ==
    /\ FirstCall
    /\ \E env \in LocateInputs :
          LET out == locate(env)
          IN  /\ call' = CallRecord("locate", env, out)
                             @@ [match |-> out.match]
              /\ now' = now + out.slept
    /\ UNCHANGED <<checkpoint_1, checkpoint_2, checkpoint_3, checkpoint_4,
                   checkpoint_5, checkpoint_1_checked, checkpoint_2_checked,
                   checkpoint_3_checked, checkpoint_4_checked, session_num,
                   session_total, min_break_duration, max_break_duration, pc,
                   exit_code, tick, cycle, click, screen, start_time,
                   travelVars>>

----------------------------------------------------------------------------
(* Specifications.                                                         *)

Init == SchedulerInit /\ TravelInit /\ CallInit

SchedulerNext == logout_break_range \/ Advance

\* One schedule: checkpoints at 1..5 s, one-minute breaks.
OneSchedule ==
    /\ checkpoint_1 = 1
    /\ checkpoint_2 = 2
    /\ min_break_duration = 1
    /\ max_break_duration = 1

SchedulerSpec == Init /\ [][SchedulerNext]_vars

\* Ticks keep being issued while the process runs.  One configuration: the
\* largest session budget, one-minute breaks.
SchedulerFairInit ==
    /\ Init
    /\ OneSchedule
    /\ session_total = MaxSessions

SchedulerFairSpec ==
    SchedulerFairInit /\ [][SchedulerNext]_vars /\ WF_vars(logout_break_range)

TravelNext == travel_call \/ travel_iteration

\* travel() alone, under one schedule.
TravelOnlyInit ==
    /\ Init
    /\ OneSchedule
    /\ session_total = 1

TravelSpec == TravelOnlyInit /\ [][TravelNext]_vars

\* The click computation of travel() applied to drawn inputs.
ClickSpec == TravelOnlyInit /\ [][travel_click]_vars

CallNext ==
    \/ logout_call
    \/ open_side_stone_call
    \/ login_full_call
    \/ drop_item_call
    \/ call_wait

\* The behavior functions called one after another while time passes.
CallSpec == TravelOnlyInit /\ [][CallNext]_vars

SkillsNext ==
    \/ cook_item_call
    \/ cast_spell_call
    \/ drop_inv_ore_call
    \/ call_wait

\* A function of skills.py called once, at some time.
SkillsSpec == TravelOnlyInit /\ [][SkillsNext]_vars

\* One locate() call.
LocateSpec == TravelOnlyInit /\ [][locate_call]_vars

----------------------------------------------------------------------------
(* Properties of the checkpoint scheduler.                                 *)

AllFalse == <<FALSE, FALSE, FALSE, FALSE>>
AllTrue == <<TRUE, TRUE, TRUE, TRUE>>

\* The last tick rolled and the roll passed.
RollPassed == tick.branch # 0 /\ tick.roll = tick.chance

\* The events of the last tick that follow logout's return.
AfterReturn ==
    LET i == CHOOSE j \in DOMAIN tick.events : tick.events[j] = "logout_returned"
    IN  SubSeq(tick.events, i + 1, Len(tick.events))

\* C1: when the tick evaluates one of checkpoints 1-4 and its 1-in-5 roll
\* passes, a break is executed and, if the process goes on, all four checked
\* flags are False when the tick returns.
C1_PassedRollResetsFlags ==
    (tick.branch \in 1..4 /\ RollPassed /\ tick.returned)
        => (Count(tick.events, "sleep") = 1 /\ Checked = AllFalse)

\* C3: a tick at or after checkpoint 5 that finds checkpoints 1-4 all checked
\* takes the forced branch: the roll is 1-in-1 and passes, logout is called
\* (a returning logout is followed by the session count and the exit or the
\* sleep), and the four checked flags are False afterwards.
C3_ForcedBreak ==
    (tick.events # <<>> /\ tick.t >= checkpoint_5 /\ tick.checked = AllTrue)
        => /\ tick.branch = 5
           /\ tick.chance = 1
           /\ tick.roll = tick.chance
           /\ Count(tick.events, "logout") = 1
           /\ Count(tick.events, "logout_returned") = 1
                 => (session_num = tick.sessions + 1
                     /\ Count(tick.events, "exit")
                          + Count(tick.events, "sleep") = 1)
           /\ Checked = AllFalse

C3_Witness ==
    /\ tick.branch = 5
    /\ tick.checked = AllTrue
    /\ tick.returned
    /\ tick.slept > 0

\* C4: a running process always has session_num < session_total; session_num
\* only ever grows by one; and once it reaches session_total the process has
\* exited with code 0 in the tick that counted the session.
C4_SessionBudget ==
    /\ [](pc = "running" => session_num < session_total)
    /\ [](session_num >= session_total
            => /\ pc = "exited"
               /\ exit_code = 0
               /\ tick.events[Len(tick.events)] = "exit"
               /\ session_num = tick.sessions + 1)
    /\ [][session_num' = session_num \/ session_num' = session_num + 1]_vars

C4_Witness ==
    /\ pc = "exited"
    /\ session_total > 1
    /\ session_num = session_total

\* The cycle is open: its forced roll has not happened yet.
CycleOpen == cycle = <<>> \/ cycle[Len(cycle)].branch # 5

\* No roll of the cycle at checkpoints 1-4 has passed.
NoEarlierPass ==
    \A i \in DOMAIN cycle : cycle[i].branch \in 1..4 => ~cycle[i].passed

\* C5: in a cycle in which no roll at checkpoints 1-4 passes, the only break
\* is the forced one, taken by a tick at or after checkpoint 5; and when ticks
\* keep being issued from checkpoint 5 on, that forced break does happen.
C5_ForcedBreakFires ==
    /\ []((~CycleOpen /\ NoEarlierPass)
            => /\ Cardinality({i \in DOMAIN cycle : cycle[i].passed}) = 1
               /\ cycle[Len(cycle)].passed)
    /\ [](tick.branch = 5 => (tick.t >= checkpoint_5 /\ RollPassed
                               /\ Count(tick.events, "logout") = 1))
    /\ (pc = "running" /\ round(now) >= checkpoint_5 /\ CycleOpen
           /\ NoEarlierPass)
         ~> (~CycleOpen \/ ~NoEarlierPass)

C5_Witness ==
    /\ ~CycleOpen
    /\ NoEarlierPass
    /\ Len(cycle) = 5
    /\ tick.branch = 5
    /\ tick.returned

\* C6: a tick that finds checkpoint k already checked does not roll for it,
\* also when it runs at the same time as the tick before; and between two
\* resets of the flags each checkpoint is rolled at most once.
C6_RolledOncePerCycle ==
    /\ \A k \in 1..4 : tick.checked[k] => tick.branch # k
    /\ \A i, j \in DOMAIN cycle : i # j => cycle[i].branch # cycle[j].branch

C6_Witness ==
    /\ tick.branch = 0
    /\ tick.checked[1]
    /\ tick.t >= checkpoint_1
    /\ cycle # <<>>
    /\ cycle[Len(cycle)].branch = 1

\* What a tick that only logs leaves: no roll, no flag or counter change.
OnlyLogs(k) ==
    /\ tick.branch = 0
    /\ tick.logged = k
    /\ tick.events = <<"log">>
    /\ Checked = tick.checked
    /\ session_num = tick.sessions

\* C7 as stated: a tick at now = t5 - 1 with checkpoints 1-4 all unchecked
\* rolls nothing and only logs checkpoint 1's time.
C7_ScenarioC_Original ==
    (tick.events # <<>> /\ tick.t = checkpoint_5 - 1 /\ tick.checked = AllFalse)
        => OnlyLogs(1)

\* C7 amended: a tick before checkpoint 1 (such as now = t1 - 1) with
\* checkpoints 1-4 all unchecked rolls nothing and only logs checkpoint 1's
\* time, changing no flag and no session counter.
C7_ScenarioC_Amended ==
    (tick.events # <<>> /\ tick.t < checkpoint_1 /\ tick.checked = AllFalse)
        => OnlyLogs(1)

C7_Witness ==
    /\ tick.events # <<>>
    /\ tick.t = checkpoint_1 - 1
    /\ tick.checked = AllFalse
    /\ tick.logged = 1

\* C8: a tick rolls for at most one checkpoint; checkpoint k is rolled only
\* when every checkpoint j < k is checked, the forced branch only when
\* checkpoints 1-4 are all checked; the rolls of a cycle come in increasing
\* order of checkpoint.
C8_InOrderOnePerTick ==
    /\ Count(tick.events, "roll") <= 1
    /\ tick.branch # 0 =>
          /\ Count(tick.events, "roll") = 1
          /\ \A j \in 1..4 : j < tick.branch => tick.checked[j]
    /\ \A i, j \in DOMAIN cycle : i < j => cycle[i].branch < cycle[j].branch

C8_Witness ==
    /\ tick.branch = 3
    /\ tick.checked = <<TRUE, TRUE, FALSE, FALSE>>
    /\ Len(cycle) = 3

\* C9: a passed roll calls logout exactly once, right after the roll; when
\* logout returns, session_num is then incremented by one and the budget is
\* tested: with session_num >= session_total the process exits with code 0
\* and has not slept, otherwise the sleep follows.  (A logout that raises
\* ends the tick there.)
C9_BreakOrder ==
    RollPassed =>
        /\ Count(tick.events, "logout") = 1
        /\ SubSeq(tick.events, 1, 2) = <<"roll", "logout">>
        /\ \/ /\ tick.events[Len(tick.events)] = "logout_raised"
              /\ Count(tick.events, "logout_returned") = 0
              /\ session_num = tick.sessions
           \/ /\ Count(tick.events, "logout_returned") = 1
              /\ session_num = tick.sessions + 1
              /\ IF session_num >= session_total
                 THEN /\ AfterReturn = <<"session_num", "exit">>
                      /\ pc = "exited"
                      /\ exit_code = 0
                      /\ tick.slept = 0
                 ELSE AfterReturn = <<"session_num", "sleep">>

C9_Witness ==
    /\ RollPassed
    /\ pc = "exited"
    /\ Count(tick.events, "click") = 1
    /\ Count(tick.events, "sleep") = 0

\* C10: when a break is executed and the budget is not exhausted, the tick
\* returns after exactly one sleep of min_break_duration to
\* max_break_duration minutes, its last event, and nothing between logout's
\* return and the end of the sleep is an input action or a vision query.
C10_BreakSleep ==
    (RollPassed /\ Count(tick.events, "logout_returned") = 1
        /\ session_num < session_total)
        => /\ tick.returned
           /\ Count(tick.events, "sleep") = 1
           /\ tick.events[Len(tick.events)] = "sleep"
           /\ min_break_duration * 60000 <= tick.slept
           /\ tick.slept <= max_break_duration * 60000
           /\ now >= tick.start + tick.slept
           /\ \A i \in DOMAIN AfterReturn :
                 AfterReturn[i] \notin {"vision", "click", "click_needle",
                                        "logout", "roll"}

C10_Witness ==
    /\ RollPassed
    /\ tick.returned
    /\ min_break_duration < max_break_duration
    /\ tick.slept > min_break_duration * 60000
    /\ tick.slept < max_break_duration * 60000

----------------------------------------------------------------------------
(* Properties of travel().                                                 *)

\* The waypoints of the call.
Waypoints == 1..Len(param_list)

\* C2: travel returns False whenever some waypoint is still outside its
\* arrival tolerance when its attempts are used up, and True only if every
\* waypoint was observed within tolerance.
C2_TravelFailsWhenUnreached ==
    travel_pc = "returned"
        => (travel_result = TRUE <=> \A w \in Waypoints : w \in observed)

\* The last iteration's localization is within its waypoint's tolerance on
\* both axes.
IterWithin ==
    /\ abs(iter.distance[1]) <= param_list[iter.wp].waypoint_tolerance[1]
    /\ abs(iter.distance[2]) <= param_list[iter.wp].waypoint_tolerance[2]

\* C11: an iteration whose localization is within tolerance on both axes
\* dispatches no click and no ctrl key event and ends the waypoint; when that
\* is the first localization of the waypoint, the waypoint has no click at
\* all, and travel returns True when it was the last waypoint.  A click is
\* dispatched only in an iteration whose localization is outside tolerance on
\* some axis.
C11_NoClickWhenArrived ==
    iter.wp # 0 =>
        /\ iter.arrived <=> IterWithin
        /\ IterWithin =>
              /\ iter.events = <<"locate">>
              /\ iter.wp \in observed
              /\ iter.attempt = 1 => clicks[iter.wp] = 0
              /\ iter.wp = Len(param_list)
                    => (travel_pc = "returned" /\ travel_result = TRUE)
        /\ Count(iter.events, "click") > 0 => ~IterWithin
        /\ Count(iter.events, "click") = Count(iter.events, "keyDown")

C11_Witness ==
    /\ iter.wp = 1
    /\ iter.attempt = 1
    /\ iter.arrived
    /\ iter.distance = <<2, -3>>
    /\ Len(param_list) = 1
    /\ travel_pc = "returned"
    /\ clicks = <<0>>

\* C15: for a waypoint that is never observed within tolerance, travel has
\* issued exactly `attempts` clicks when it gives up on it.
C15_AttemptsClicks ==
    travel_pc = "returned" =>
        \A w \in Waypoints : w \notin observed => clicks[w] = attempts

----------------------------------------------------------------------------
(* Properties of travel()'s click computation.                             *)

Axes == {1, 2}

Sgn(d) == IF d >= 0 THEN 1 ELSE -1

\* C12 as stated: on an axis whose delta has magnitude 50 or more, the
\* click is exactly 50 from the minimap centre in the delta's direction,
\* plus the jitter.
C12_ClampExactly50 ==
    click.done =>
        \A a \in Axes :
            abs(click.distance[a]) >= 50
                => click.click_pos[a] - click.centre[a]
                       = Sgn(click.distance[a]) * 50 + click.rand[a]

\* C12, amended: on an axis whose delta has magnitude 50 or more, the click
\* coordinate is the absolute value of the minimap centre plus the jitter
\* plus 50, or 63 when the edge boost is applied, in the delta's direction.
C12_ClampedOffset ==
    click.done =>
        \A a \in Axes :
            abs(click.distance[a]) >= 50
                => \E reach \in {50, 63} :
                       click.click_pos[a]
                           = abs(click.centre[a] + click.rand[a]
                                   + Sgn(click.distance[a]) * reach)

C12_Witness ==
    /\ click.done
    /\ click.distance = <<60, 180>>
    /\ click.rand = <<3, -3>>
    /\ click.click_pos = <<695, 132>>

\* C13: on a clamped axis the boost of 13 is applied exactly when the
\* magnitude of the other axis's delta is at most 10.
C13_BoostIffSmallOrthogonal ==
    click.done =>
        \A a \in Axes :
            abs(click.distance[a]) >= 50
                => (abs(click.raw[a] - click.centre[a] - click.rand[a]) = 63
                       <=> abs(click.distance[3 - a]) <= 10)

\* C14 as stated: on an axis whose delta has magnitude below 50 the click
\* coordinate is the minimap centre plus the delta plus a jitter within the
\* coordinate tolerance.
C14_UnclampedIsSum ==
    click.done =>
        \A a \in Axes :
            abs(click.distance[a]) < 50
                => /\ click.click_pos[a]
                          = click.centre[a] + click.distance[a] + click.rand[a]
                   /\ abs(click.rand[a]) <= click.coord_tolerance

\* C14, amended: on an axis whose delta has magnitude below 50 the click
\* coordinate is the absolute value of the minimap centre plus the delta
\* plus a jitter within the coordinate tolerance, one jitter per axis.
C14_UnclampedIsAbsSum ==
    click.done =>
        \A a \in Axes :
            abs(click.distance[a]) < 50
                => /\ click.click_pos[a]
                          = abs(click.centre[a] + click.distance[a]
                                  + click.rand[a])
                   /\ abs(click.rand[a]) <= click.coord_tolerance

C14_Witness ==
    /\ click.done
    /\ click.distance = <<20, 0>>
    /\ click.coord_tolerance = 3
    /\ click.rand = <<3, -1>>
    /\ click.click_pos = <<665, 84>>

----------------------------------------------------------------------------
(* Properties of the behavior functions called on their own.               *)

\* The last two events of the last call.
LastTwo == SubSeq(call.events, Len(call.events) - 1, Len(call.events))

\* The last call returned or raised, and returned nothing but True.
TrueOrRaised == call.raised \/ call.result = TRUE

\* C16: a logout() on a client that is seen logged out returns True after
\* the orientation query alone: no side stone is opened and nothing is
\* clicked.  So does a logout() that directly follows a logout() that
\* returned True.
C16_LogoutIdempotent ==
    call.fn = "logout" =>
        /\ orient(call.before)[1] = "logged_out"
              => (Returned(call, TRUE) /\ call.events = <<"vision">>)
        /\ call.after_logout # "no"
              => (Returned(call, TRUE) /\ call.events = <<"vision">>)

C16_Witness ==
    /\ call.fn = "logout"
    /\ call.after_logout = "clicked"
    /\ Returned(call, TRUE)
    /\ call.events = <<"vision">>

\* C17: logout() returns True only when the client was already logged out,
\* or when the logged-out screen was detected after a click on a logout
\* button; it raises when the side stone does not open, when no logout
\* button is found in its 12 searches and when the logged-out screen is not
\* detected in 5 waits, each followed by another click; it returns no other
\* value than True.
C17_LogoutTrueOrRaises ==
    call.fn = "logout" =>
        /\ TrueOrRaised
        /\ Returned(call, TRUE) =>
              \/ call.env.already /\ call.events = <<"vision">>
              \/ /\ ~call.env.already
                 /\ call.env.button # 0
                 /\ call.env.detect < 5
                 /\ Count(call.events, "click") = 1 + call.env.detect
                 /\ LastTwo = <<"click", "vision">>
        /\ call.raised =>
              /\ ~call.env.already
              /\ \/ call.env.stone > StoneRounds
                       /\ Count(call.events, "click") = 0
                 \/ call.env.button = 0
                       /\ Count(call.events, "click") = 0
                       /\ SubSeq(call.events, Len(call.events) - 11,
                                 Len(call.events)) = Rep("vision", 12)
                 \/ call.env.detect = 5
                       /\ Count(call.events, "click") = 6
                       /\ LastTwo = <<"vision", "click">>

C17_Witness ==
    /\ call.fn = "logout"
    /\ call.before = "logged_in"
    /\ Returned(call, TRUE)
    /\ call.env.button = 3
    /\ Count(call.events, "click") = 2
    /\ screen = "logged_out"

\* C18: open_side_stone() returns True after its first query, without a
\* click, when the stone is seen open; otherwise it returns True only right
\* after the open needle is detected following a click attempt; it raises
\* only after every round of its loop has failed; it returns no other value
\* than True.
C18_SideStoneTrueOrRaises ==
    call.fn = "open_side_stone" =>
        /\ TrueOrRaised
        /\ call.env = 0
              => (Returned(call, TRUE) /\ call.events = <<"vision">>)
        /\ (Returned(call, TRUE) /\ call.env # 0)
              => (/\ call.env \in 1..StoneRounds
                  /\ LastTwo = <<"click_needle", "vision">>
                  /\ Count(call.events, "vision") = 1 + call.env)
        /\ call.raised
              => (/\ call.env > StoneRounds
                  /\ Count(call.events, "vision") = 1 + StoneRounds
                  /\ Count(call.events, "click_needle") = 2 * StoneRounds)

C18_Witness ==
    /\ call.fn = "open_side_stone"
    /\ call.env = 3
    /\ Returned(call, TRUE)
    /\ Count(call.events, "click_needle") = 5

\* The round of login_full's loop in which the post-login button is clicked
\* and the logged-in needle detected, every round before it having ended
\* without an exception.
LoggedInAt(k) ==
    /\ call.env[k].login
    /\ call.env[k].postlogin
    /\ call.env[k].logged_in
    /\ \A j \in 1..(k - 1) :
          /\ call.env[j].login
          /\ ~call.env[j].postlogin
          /\ ~call.env[j].invalid

\* C19: login_full() returns True only if the post-login button was clicked
\* and the logged-in needle then detected, and start.start_time is then the
\* time of the call; it raises in every other case, returns no other value
\* than True, and calls login_basic() at most twice.
C19_LoginTrueOrRaises ==
    call.fn = "login_full" =>
        /\ TrueOrRaised
        /\ Returned(call, TRUE) <=> \E k \in 1..LoginRounds : LoggedInAt(k)
        /\ Returned(call, TRUE) =>
              /\ SubSeq(call.events, Len(call.events) - 6, Len(call.events))
                    = <<"click", "sleep", "vision", "start_time", "keyDown",
                        "sleep", "keyUp">>
              /\ start_time = call.at
        /\ call.raised => Count(call.events, "start_time") = 0
        /\ Count(call.events, "login_basic") \in 1..2

C19_Witness ==
    /\ call.fn = "login_full"
    /\ Returned(call, TRUE)
    /\ Count(call.events, "login_basic") = 2
    /\ call.at = 500
    /\ start_time = 500
    /\ now = 1000

\* The last drop_item() got past open_side_stone('inventory').
InventoryOpen == call.env.stone <= StoneRounds

\* C20 as stated: drop_item() returns True only when a whole-inventory
\* search no longer detects the item; it returns False without pressing
\* shift or clicking if the item is not detected at first; it returns False
\* after 40 rounds if the item is still detected.
C20_DropItem ==
    call.fn = "drop_item" =>
        /\ Returned(call, TRUE)
              => (/\ call.env.item \in 1..DropRounds
                  /\ Count(call.events, "keyDown") = call.env.item)
        /\ (InventoryOpen /\ call.env.item = 0)
              => (/\ Returned(call, FALSE)
                  /\ Count(call.events, "keyDown") = 0
                  /\ Count(call.events, "click_needle") = 0)
        /\ (InventoryOpen /\ call.env.item > DropRounds)
              => (/\ Returned(call, FALSE)
                  /\ Count(call.events, "keyDown") = 40)

\* C20, amended: drop_item() returns True only when a whole-inventory search
\* no longer detects the item; if the item is not detected at first it
\* returns False without pressing shift or clicking the item, having done no
\* more than open_side_stone('inventory') and one search; it returns False
\* after 40 rounds if the item is still detected.
C20_DropItemAfterSideStone ==
    call.fn = "drop_item" =>
        /\ Returned(call, TRUE)
              => (/\ call.env.item \in 1..DropRounds
                  /\ Count(call.events, "keyDown") = call.env.item)
        /\ (InventoryOpen /\ call.env.item = 0)
              => (/\ Returned(call, FALSE)
                  /\ Count(call.events, "keyDown") = 0
                  /\ call.events
                        = open_side_stone(call.env.stone).events
                             \o <<"vision">>)
        /\ (InventoryOpen /\ call.env.item > DropRounds)
              => (/\ Returned(call, FALSE)
                  /\ Count(call.events, "keyDown") = 40)

C20_Witness ==
    /\ call.fn = "drop_item"
    /\ call.env = [stone |-> 1, item |-> 0]
    /\ Returned(call, FALSE)
    /\ call.events = <<"vision", "click_needle", "vision", "vision">>

----------------------------------------------------------------------------
(* Further properties of the checkpoint scheduler and of travel().         *)

\* The five checkpoint timestamps, in seconds.
Checkpoints ==
    <<checkpoint_1, checkpoint_2, checkpoint_3, checkpoint_4, checkpoint_5>>

\* At time t (seconds) with the flags c, no checkpoint is due: checkpoints
\* 1-4 are each checked or later than t, and checkpoint 5 is later than t.
NoneDue(t, c) ==
    /\ \A k \in 1..4 : c[k] \/ t < Checkpoints[k]
    /\ t < checkpoint_5

\* The lowest-numbered checkpoint not checked in c; checkpoint 5 has no flag.
LowestUnchecked(c) ==
    IF \E k \in 1..4 : ~c[k]
    THEN CHOOSE k \in 1..4 : ~c[k] /\ \A j \in 1..(k - 1) : c[j]
    ELSE 5

\* C27: a tick at which no checkpoint is due makes no roll, calls no logout,
\* does not sleep, leaves the checked flags and the session counters as they
\* were and only logs the time of the lowest-numbered unchecked checkpoint.
C27_IdleTickOnlyLogs ==
    (tick.events # <<>> /\ NoneDue(tick.t, tick.checked)) =>
        /\ tick.events = <<"log">>
        /\ tick.logged = LowestUnchecked(tick.checked)
        /\ tick.slept = 0
        /\ tick.returned
        /\ Checked = tick.checked
        /\ session_num = tick.sessions
        /\ pc = "running"

C27_Witness ==
    /\ tick.events = <<"log">>
    /\ tick.checked = <<TRUE, TRUE, FALSE, FALSE>>
    /\ tick.t = checkpoint_2
    /\ tick.logged = 3
    /\ Checked = tick.checked

\* C28: when a tick has cleared a checked flag, its break cycle is complete:
\* logout has returned, the session is counted and the break sleep is over.
\* In particular a tick whose logout raises clears no flag.
C28_ResetAfterBreak ==
    (tick.events # <<>> /\ \E k \in 1..4 : tick.checked[k] /\ ~Checked[k]) =>
        /\ Len(tick.events) >= 3
        /\ SubSeq(tick.events, Len(tick.events) - 2, Len(tick.events))
              = <<"logout_returned", "session_num", "sleep">>

\* C29: a click toward a waypoint is dispatched only when every waypoint
\* before it has been observed within its tolerance.
C29_ClicksInOrder ==
    \A w \in Waypoints :
        clicks[w] > 0 => \A v \in 1..(w - 1) : v \in observed

\* C30: when the last tick took a break and returned, the five checkpoints
\* are all later than the end of the break, so a tick then makes no roll.
C30_CheckpointsPerSession ==
    (tick.returned /\ tick.slept > 0 /\ now = tick.start + tick.slept) =>
        /\ \A k \in 1..5 : Checkpoints[k] * 1000 > now
        /\ Branch(round(now)) = 0

----------------------------------------------------------------------------
(* Properties of the functions of skills.py.                               *)

\* C21: cook_item() returns True only if the cooking-done needle was seen
\* in its wait loop; when it returns without that, also when the loop has
\* run out, it returns False.
C21_CookTrueOnlyWhenDone ==
    (call.fn = "cook_item" /\ ~call.raised) =>
        LET seen == call.env.stage = "cooking" /\ call.env.done <= CookRounds
        IN  /\ Returned(call, TRUE) => seen
            /\ ~seen => Returned(call, FALSE)

\* C22: cast_spell() returns True only if both the spell and the target
\* were selected in the call; when it returns otherwise it returns False,
\* with self.logout False and True alike.
C22_CastTrueOnlyWhenSelected ==
    (call.fn = "cast_spell" /\ ~call.raised) =>
        LET both == call.env.spell # 0 /\ call.env.target # 0
        IN  /\ Returned(call, TRUE) => both
            /\ ~both => Returned(call, FALSE)

\* C23: drop_inv_ore() returns True whenever the ore was dropped, whatever
\* the flags of the optional items, and has then dropped every optional item
\* whose flag is enabled; when the ore is not found it logs out and raises.
C23_DropInvOre ==
    call.fn = "drop_inv_ore" =>
        LET ore_dropped == drop_item(call.env.ore)
        IN  /\ (Returned(ore_dropped, TRUE) /\ ~call.raised) =>
                  /\ Returned(call, TRUE)
                  /\ \A k \in 1..Len(DropItems) :
                        call.env.flags[k] =>
                            Count(call.events, DropItems[k]) = 1
            /\ Returned(ore_dropped, FALSE) =>
                  /\ call.raised
                  /\ Count(call.events, "logout") = 1

----------------------------------------------------------------------------
(* Properties of the Vision Engine's locate().                             *)

\* The captures and sleeps of the last call.
Captures == Count(call.events, "capture")
Sleeps == Count(call.events, "sleep")

\* C24: locate() never returns a match whose score is below the confidence
\* threshold: a returned match has a score at or above the threshold, and
\* that score is the score of a capture within the attempt bound.
C24_MatchAtLeastConfidence ==
    (call.fn = "locate" /\ call.match # <<>>) =>
        /\ call.match[1].score >= call.env.confidence
        /\ \E k \in 1..call.env.attempts :
              /\ k = Captures
              /\ call.env.scores[k] = call.match[1].score

\* A match is returned at the second capture, with a score exactly at the
\* threshold, after a capture that scored below it.
C24_Witness ==
    /\ call.fn = "locate"
    /\ call.env.confidence = 90
    /\ call.env.scores = <<50, 90>>
    /\ call.match # <<>>
    /\ call.match[1].score = 90
    /\ Captures = 2

\* C25: locate() makes at most attempts captures and never raises; when no
\* capture within the attempts is accepted it returns not-found; no sleep
\* follows an accepted capture, so that a match on the first capture with
\* attempts = 1 returns with zero sleeps.
C25_BoundedCaptures ==
    call.fn = "locate" =>
        /\ Captures <= call.env.attempts
        /\ ~call.raised
        /\ (~Smaller(call.env.region, call.env.needle)
             /\ \A k \in 1..call.env.attempts :
                   call.env.scores[k] < call.env.confidence) =>
               /\ Returned(call, FALSE)
               /\ call.match = <<>>
               /\ Captures = call.env.attempts
        /\ call.match # <<>> =>
               /\ Returned(call, TRUE)
               /\ call.events[Len(call.events)] = "capture"
               /\ Sleeps = Captures - 1
               /\ (call.env.attempts = 1 => Sleeps = 0 /\ now = call.at)

\* Scenario A: the needle at the region's origin scores 0.95 against a
\* confidence of 0.9 with attempts = 1; the match is returned from the first
\* capture and no sleep has elapsed.
C25_Witness ==
    /\ call.fn = "locate"
    /\ call.env.attempts = 1
    /\ call.env.confidence = 90
    /\ call.env.scores = <<95>>
    /\ call.env.at = <<0, 0>>
    /\ call.match # <<>>
    /\ call.match[1].left = 0 /\ call.match[1].top = 0
    /\ call.events = <<"capture">>
    /\ now = call.at

\* C26: locate() on a region strictly smaller than the needle returns
\* not-found and makes no capture and no sleep.
C26_SmallRegionNoCapture ==
    (/\ call.fn = "locate"
     /\ \/ call.env.region[1] < call.env.needle[1]
        \/ call.env.region[2] < call.env.needle[2]) =>
        /\ Returned(call, FALSE)
        /\ call.match = <<>>
        /\ call.events = <<>>
        /\ now = call.at

\* A region narrower than the needle but as high, with a capture score that
\* would have been accepted.
C26_Witness ==
    /\ call.fn = "locate"
    /\ call.env.region = <<1, MaxSide>>
    /\ call.env.needle = <<MaxSide, MaxSide>>
    /\ call.env.confidence = 1
    /\ call.match = <<>>
    /\ call.events = <<>>

----------------------------------------------------------------------------
(* Further properties of behavior.py and skills.py.                        *)

\* The events of the logout() calls that raise.
RaisingLogouts == {logout(env).events : env \in {e \in LogoutEnvs : logout(e).raised}}

\* The logout() call of the last tick raised: its events follow the tick's
\* roll.
LogoutRaisedInTick ==
    /\ RollPassed
    /\ \E ev \in RaisingLogouts :
          /\ Len(tick.events) >= 2 + Len(ev)
          /\ SubSeq(tick.events, 3, 2 + Len(ev)) = ev

\* C31: when logout() raises during a break, the exception leaves the tick:
\* the tick does not return, session_num is not incremented, the process
\* does not exit with code 0 and no break sleep is made.
C31_LogoutRaisePropagates ==
    LogoutRaisedInTick =>
        /\ ~tick.returned
        /\ pc = "raised"
        /\ session_num = tick.sessions
        /\ Count(tick.events, "session_num") = 0
        /\ exit_code # 0
        /\ Count(tick.events, "exit") = 0
        /\ tick.slept = 0
        /\ Count(tick.events, "sleep") = 0
        /\ now = tick.start

\* logout() raises for its missing button in the second session's forced
\* break.
C31_Witness ==
    /\ LogoutRaisedInTick
    /\ tick.branch = 5
    /\ tick.sessions = 1
    /\ session_total = 2
    /\ Count(tick.events, "vision") = 14
    /\ pc = "raised"

\* C32: cook_item() ends with an explicit result after a bounded number of
\* vision queries and sleeps whatever the screen shows, also with a level-up
\* message that stays on the screen: its nested calls never reach the
\* recursion limit, and the call returns True or False unless the inventory
\* could not be opened.
C32_CookTerminates ==
    call.fn = "cook_item" =>
        /\ Count(call.events, "RecursionError") = 0
        /\ Count(call.events, "cook_item") < MaxDepth
        /\ \/ Returned(call, TRUE)
           \/ Returned(call, FALSE)
           \/ call.raised /\ open_side_stone(call.env.stone).raised

\* The place of the first e in seq (0: none).
First(seq, e) ==
    IF \E i \in DOMAIN seq : seq[i] = e
    THEN CHOOSE i \in DOMAIN seq :
            seq[i] = e /\ \A j \in 1..(i - 1) : seq[j] # e
    ELSE 0

\* What the last call did after its first logout() call had ended.
AfterFirstLogout ==
    LET i == First(call.events, "logout")
        lo == logout(SpellLogout(call.env, call.before))
    IN  SubSeq(call.events, i + Len(lo.events) + 1, Len(call.events))

\* C33: once cast_spell() with self.logout has called logout() for a spell
\* or target that could not be selected, it makes no login and no click and
\* does not call the scheduler tick before it returns, and the client is
\* logged out when it returns.
C33_NothingAfterLogout ==
    (/\ call.fn = "cast_spell"
     /\ call.env.logout
     /\ ~call.raised
     /\ First(call.events, "logout") # 0
     /\ First(call.events, "logout")
            < First(call.events \o <<"logout_break_range">>,
                    "logout_break_range")) =>
        /\ Count(AfterFirstLogout, "login_full") = 0
        /\ Count(AfterFirstLogout, "click") = 0
        /\ Count(AfterFirstLogout, "logout_break_range") = 0
        /\ screen = "logged_out"

\* C34: when the side stone is not open at the first query, open_side_stone
\* raises only after 5 click-and-verify attempts: 5 verifying queries follow
\* the first one, each after a click attempt on the closed stone.
C34_FiveAttempts ==
    (call.fn = "open_side_stone" /\ call.raised) =>
        /\ Count(call.events, "vision") - 1 = 5
        /\ Count(call.events, "click_needle") >= 5

\* The key events of the last iteration before its i-th event.
KeysBefore(i) ==
    SelectSeq(SubSeq(iter.events, 1, i - 1),
              LAMBDA e : e \in {"keyDown", "keyUp"})

\* C35: in travel() every click is made with ctrl held, ctrl is released
\* before the sleep that follows the click, keyDown and keyUp alternate over
\* the whole call, and ctrl is not held between iterations nor when travel
\* has returned.
C35_CtrlHeldOnlyForClick ==
    /\ iter.ctrl.alternate
    /\ ~iter.ctrl.held
    /\ \A i \in DOMAIN iter.events :
          LET keys == KeysBefore(i)
          IN  /\ iter.events[i] = "click" =>
                    keys # <<>> /\ keys[Len(keys)] = "keyDown"
              /\ iter.events[i] = "sleep" =>
                    keys # <<>> /\ keys[Len(keys)] = "keyUp"

\* travel() has returned True after two clicks toward its only waypoint.
C35_Witness ==
    /\ travel_pc = "returned"
    /\ travel_result = TRUE
    /\ Len(param_list) = 1
    /\ clicks = <<2>>
    /\ Count(iter.events, "click") = 1
    /\ ~iter.ctrl.held
    /\ iter.ctrl.alternate

\* C36: the end of the break that logout_break_roll computes and logs is
\* the time at which the break starts plus the sampled duration.
C36_StopTime ==
    (tick.events # <<>> /\ tick.slept > 0) =>
        tick.stop_time = tick.start + tick.slept

====
